---- MODULE Spec2Model ----
(***************************************************************************)
(* Order-tracking system of a small online store (SkoifDev/uchet).         *)
(*                                                                         *)
(* models.py  : Person/Client, Product, OrderItem, Order                   *)
(* analysis.py: DataAnalyzer (top-N rankings, orders dynamics, report)     *)
(* db.py      : Database (the SQLite store and its save operations)        *)
(*                                                                         *)
(* Objects live in three heaps (sequences); an object's identity is its    *)
(* index in its heap, as id(self) is in the source.  Money is counted in   *)
(* whole units.  A method is an operator computing the object after the    *)
(* call and whether the call raised; an action applies a method to the     *)
(* heaps and records the call in `op` and its outcome in `ret`.            *)
(***************************************************************************)
EXTENDS Integers, Sequences, FiniteSets, TLC

VARIABLES
    clients,    \* heap of Client objects: [email, orders]; orders = Client._orders
    products,   \* heap of Product objects: [price]
    orders,     \* heap of Order objects: [client, order_date, items]
    item,       \* a free-standing OrderItem (not part of an order), or NoItem
    db,         \* the SQLite file of db.py: the rows of its four tables
    ids,        \* the ids assigned over id(self): client._client_id = ... (db.py)
    gui,        \* OnlineStoreApp: clients, products, orders, current_order, client_var
    file,       \* the file written by export_to_csv: [fieldnames, rows]
    op,         \* the last call: [name, args]
    ret         \* its outcome: returned None, returned a value, or raised

vars == <<clients, products, orders, item, db, ids, gui, file, op, ret>>

----------------------------------------------------------------------------
(* Bounds of the model.                                                    *)

MaxClients == 2     \* Client objects created
MaxProducts == 2    \* Product objects created
MaxOrders == 2      \* Order objects created
MaxLines == 2       \* OrderItem objects held by all orders together
MaxQuantity == 2    \* largest quantity an order line reaches
MaxTopN == 2        \* largest top_n asked for
MaxDates == 3       \* longest list handed to _recursive_date_sort
MaxRows == 2        \* most rows in an imported file

----------------------------------------------------------------------------
(* Outcomes of a call.                                                     *)

ReturnNone == [kind |-> "return", value |-> <<>>]
Return(v) == [kind |-> "return", value |-> v]
Raise(e) == [kind |-> "raise", value |-> e]

Call(name, args) == [name |-> name, args |-> args]

----------------------------------------------------------------------------
(* Generic helpers.                                                        *)

Min(a, b) == IF a < b THEN a ELSE b
Max(a, b) == IF a > b THEN a ELSE b

Range(s) == {s[i] : i \in 1..Len(s)}

RECURSIVE SumSeq(_)
SumSeq(s) == IF s = <<>> THEN 0 ELSE Head(s) + SumSeq(Tail(s))

\* Python's s[:n] for any integer n (a negative n counts from the end).
PySlice(s, n) ==
    LET stop == IF n < 0 THEN Max(Len(s) + n, 0) ELSE Min(n, Len(s))
    IN  SubSeq(s, 1, stop)

----------------------------------------------------------------------------
(* models.py: the ids.  An object is its index in the heap of its class;   *)
(* its id is id(self), that index, unless a load assigned the stored id.   *)

\* no object has been given an id other than its own id(self)
NoIds == [clients |-> <<>>, products |-> <<>>, orders |-> <<>>]

\* Client.client_id: "self._client_id = id(self)", the heap index, unless
\* load_clients assigned the stored one ("client._client_id = client_id")
client_id(c) == IF c \in DOMAIN ids.clients THEN ids.clients[c] ELSE c

\* Product.product_id
product_id(p) == IF p \in DOMAIN ids.products THEN ids.products[p] ELSE p

\* Order.order_id
order_id(o) == IF o \in DOMAIN ids.orders THEN ids.orders[o] ELSE o

----------------------------------------------------------------------------
(* models.py: Person / Client                                              *)

Letters == {"a", "b", "c", "e", "g", "o", "r", "t", "u"}
Digits == {"0", "1", "7"}
LocalChars == Letters \cup Digits \cup {".", "_", "%", "+", "-"}
DomainChars == Letters \cup Digits \cup {".", "-"}

\* re.match(r'^[a-zA-Z0-9._%+-]+@[a-zA-Z0-9.-]+\.[a-zA-Z]{2,}$', email):
\* a non-empty local part, "@", a non-empty domain, ".", two or more letters,
\* then the end of the string or a final newline ($ matches before it).
validate_email(email) ==
    LET n == Len(email)
        end == IF n > 0 /\ email[n] = "\n" THEN n - 1 ELSE n
    IN  \E at \in 2..n : \E dot \in (at + 2)..n :
            /\ email[at] = "@"
            /\ \A i \in 1..(at - 1) : email[i] \in LocalChars
            /\ \A i \in (at + 1)..(dot - 1) : email[i] \in DomainChars
            /\ email[dot] = "."
            /\ end - dot >= 2
            /\ \A i \in (dot + 1)..end : email[i] \in Letters

\* Person.__init__ / Client.__init__: the fields are assigned directly
\* (self._email = email), the property setter is not used.
Client_init(email) == [email |-> email, orders |-> <<>>]

\* Person.email setter: [raised, self after the call]
Person_email_set(self, value) ==
    IF ~validate_email(value)
    THEN [raised |-> TRUE, self |-> self]
    ELSE [raised |-> FALSE, self |-> [self EXCEPT !.email = value]]

----------------------------------------------------------------------------
(* models.py: Product                                                      *)

\* Product.__init__: self._price = price, the property setter is not used.
Product_init(price) == [price |-> price]

\* Product.price setter
Product_price_set(self, value) ==
    IF value < 0
    THEN [raised |-> TRUE, self |-> self]
    ELSE [raised |-> FALSE, self |-> [self EXCEPT !.price = value]]

----------------------------------------------------------------------------
(* models.py: OrderItem                                                    *)

NoItem == [product |-> 0, quantity |-> 0]

\* OrderItem.__init__: self._quantity = quantity, the setter is not used.
OrderItem_init(product, quantity) == [product |-> product, quantity |-> quantity]

\* OrderItem.quantity setter
OrderItem_quantity_set(self, value) ==
    IF value < 1
    THEN [raised |-> TRUE, self |-> self]
    ELSE [raised |-> FALSE, self |-> [self EXCEPT !.quantity = value]]

\* OrderItem.total_price
total_price(it) == products[it.product].price * it.quantity

----------------------------------------------------------------------------
(* models.py: Client.add_order / get_total_spent, Order                    *)

\* Client.add_order: "if order not in self._orders: self._orders.append(order)"
Client_add_order(self, order) ==
    IF order \in Range(self.orders)
    THEN self
    ELSE [self EXCEPT !.orders = Append(@, order)]

\* Order.__init__ (the registration on the client is done by NewOrder);
\* "New" stands for the initial status string of the source
Order_init(client, order_date) ==
    [client |-> client, order_date |-> order_date, items |-> <<>>,
     status |-> "New"]

\* mutants of Order.add_item: a new line appended whatever the order holds;
\* the quantity of the line set to the given one instead of increased by it
Order_add_item_appending(self, product, quantity) ==
    [raised |-> FALSE,
     self |-> [self EXCEPT !.items = Append(@, OrderItem_init(product, quantity))]]

Order_add_item_setting(self, product, quantity) ==
    LET same == {i \in 1..Len(self.items) :
                    product_id(self.items[i].product) = product_id(product)}
    IN  IF same # {}
        THEN LET i == CHOOSE k \in same : \A j \in same : k <= j
                 r == OrderItem_quantity_set(self.items[i], quantity)
             IN  [raised |-> r.raised,
                  self |-> [self EXCEPT !.items[i] = r.self]]
        ELSE [raised |-> FALSE,
              self |-> [self EXCEPT
                           !.items = Append(@, OrderItem_init(product, quantity))]]

\* Order.add_item: the first line of the same product gets
\* "item.quantity += quantity" (through the quantity setter); without such a
\* line a new OrderItem is appended.  [raised, self after the call]
Order_add_item(self, product, quantity) ==
    LET same == {i \in 1..Len(self.items) :
                    product_id(self.items[i].product) = product_id(product)}
    IN  IF same # {}
        THEN LET i == CHOOSE k \in same : \A j \in same : k <= j
                 r == OrderItem_quantity_set(self.items[i],
                                             self.items[i].quantity + quantity)
             IN  [raised |-> r.raised,
                  self |-> [self EXCEPT !.items[i] = r.self]]
        ELSE [raised |-> FALSE,
              self |-> [self EXCEPT
                           !.items = Append(@, OrderItem_init(product, quantity))]]

\* mutant of Order.remove_item: one unit taken off the line, which goes
\* only when nothing is left of it
Order_remove_item_one_unit(self, product) ==
    LET less == [i \in 1..Len(self.items) |->
                    IF self.items[i].product = product
                    THEN [self.items[i] EXCEPT !.quantity = @ - 1]
                    ELSE self.items[i]]
    IN  [self EXCEPT !.items =
            SelectSeq(less, LAMBDA it : it.product # product \/ it.quantity >= 1)]

\* Order.remove_item: the list rebuilt without the lines of the product
Order_remove_item(self, product) ==
    [self EXCEPT !.items =
        SelectSeq(@, LAMBDA it : product_id(it.product) # product_id(product))]

\* mutant of Order.total_amount: the sum left after the first line
total_amount_first_item(order) ==
    IF order.items = <<>> THEN 0 ELSE total_price(order.items[1])

\* Order.total_amount
total_amount(order) ==
    SumSeq([i \in 1..Len(order.items) |-> total_price(order.items[i])])

\* Client.get_total_spent
get_total_spent(client) ==
    SumSeq([i \in 1..Len(client.orders) |-> total_amount(orders[client.orders[i]])])

\* datetime.strftime('%Y-%m-%d'): the date without the time of day, as the
\* fixed-width fields year, month, day
strftime_Ymd(dt) == <<dt.year, dt.month, dt.day>>

\* str < str on two 'YYYY-MM-DD' strings: lexicographic
StrLess(a, b) ==
    \E i \in 1..Len(a) :
        /\ \A j \in 1..(i - 1) : a[j] = b[j]
        /\ a[i] < b[i]

----------------------------------------------------------------------------
(* analysis.py: DataAnalyzer.  The analyzer is built over the three heaps  *)
(* in creation order, as gui.py and test_analysis.py build it.             *)

\* sorted(records, key=lambda x: x[key], reverse=True): a stable sort, the
\* records of equal key keep their order.
InsertReverse(sorted, x, key) ==
    LET before == Cardinality({i \in 1..Len(sorted) : sorted[i][key] >= x[key]})
    IN  SubSeq(sorted, 1, before) \o <<x>> \o SubSeq(sorted, before + 1, Len(sorted))

RECURSIVE SortedReverse(_, _)
SortedReverse(records, key) ==
    IF records = <<>>
    THEN <<>>
    ELSE InsertReverse(SortedReverse(SubSeq(records, 1, Len(records) - 1), key),
                       records[Len(records)], key)

\* get_top_clients_by_orders, lines 48-54
client_orders ==
    [c \in 1..Len(clients) |->
        [client |-> c,
         order_count |-> Len(clients[c].orders),
         total_spent |-> get_total_spent(clients[c])]]

\* mutants: the sort left out; the ranking by money spent
get_top_clients_unsorted(top_n) == PySlice(client_orders, top_n)

get_top_clients_by_spent(top_n) ==
    PySlice(SortedReverse(client_orders, "total_spent"), top_n)

get_top_clients_by_orders(top_n) ==
    PySlice(SortedReverse(client_orders, "order_count"), top_n)

\* get_top_products_by_sales, lines 76-87: one pass of the inner loop
AddSale(product_sales, it) ==
    LET found == {i \in 1..Len(product_sales) : product_sales[i].product = it.product}
        sales == IF found = {}
                 THEN Append(product_sales,
                             [product |-> it.product, quantity_sold |-> 0, revenue |-> 0])
                 ELSE product_sales
        k == CHOOSE i \in 1..Len(sales) : sales[i].product = it.product
    IN  [sales EXCEPT ![k].quantity_sold = @ + it.quantity,
                      ![k].revenue = @ + total_price(it)]

RECURSIVE AddSales(_, _)
AddSales(product_sales, its) ==
    IF its = <<>>
    THEN product_sales
    ELSE AddSales(AddSale(product_sales, Head(its)), Tail(its))

RECURSIVE ProductSales(_, _)
ProductSales(product_sales, os) ==
    IF os = <<>>
    THEN product_sales
    ELSE ProductSales(AddSales(product_sales, Head(os).items), Tail(os))

\* mutant: the ranking by units sold
get_top_products_by_quantity(top_n) ==
    PySlice(SortedReverse(ProductSales(<<>>, orders), "quantity_sold"), top_n)

get_top_products_by_sales(top_n) ==
    PySlice(SortedReverse(ProductSales(<<>>, orders), "revenue"), top_n)

\* mutant: the two partitions concatenated the wrong way round
RECURSIVE recursive_date_sort_swapped(_)
recursive_date_sort_swapped(dates) ==
    IF Len(dates) <= 1
    THEN dates
    ELSE LET pivot == dates[(Len(dates) \div 2) + 1]
             left == SelectSeq(dates, LAMBDA x : StrLess(x, pivot))
             middle == SelectSeq(dates, LAMBDA x : x = pivot)
             right == SelectSeq(dates, LAMBDA x : StrLess(pivot, x))
         IN  recursive_date_sort_swapped(right) \o middle
                 \o recursive_date_sort_swapped(left)

\* mutant: the dates equal to the pivot kept once
RECURSIVE recursive_date_sort_dedup(_)
recursive_date_sort_dedup(dates) ==
    IF Len(dates) <= 1
    THEN dates
    ELSE LET pivot == dates[(Len(dates) \div 2) + 1]
             left == SelectSeq(dates, LAMBDA x : StrLess(x, pivot))
             right == SelectSeq(dates, LAMBDA x : StrLess(pivot, x))
         IN  recursive_date_sort_dedup(left) \o <<pivot>>
                 \o recursive_date_sort_dedup(right)

\* _recursive_date_sort
RECURSIVE recursive_date_sort(_)
recursive_date_sort(dates) ==
    IF Len(dates) <= 1
    THEN dates
    ELSE LET pivot == dates[(Len(dates) \div 2) + 1]
             left == SelectSeq(dates, LAMBDA x : StrLess(x, pivot))
             middle == SelectSeq(dates, LAMBDA x : x = pivot)
             right == SelectSeq(dates, LAMBDA x : StrLess(pivot, x))
         IN  recursive_date_sort(left) \o middle \o recursive_date_sort(right)

\* _recursive_date_sort: "pivot = dates[len(dates) // 2]"
pivot_of(dates) == dates[(Len(dates) \div 2) + 1]

\* mutant: the pivot's equals sent to the left partition as well
left_of_with_pivot(dates) ==
    SelectSeq(dates, LAMBDA x : ~StrLess(pivot_of(dates), x))

\* _recursive_date_sort: "left = [x for x in dates if x < pivot]", the list
\* handed to the first recursive call
left_of(dates) == SelectSeq(dates, LAMBDA x : StrLess(x, pivot_of(dates)))

\* _recursive_date_sort: "right = [x for x in dates if x > pivot]", the list
\* handed to the second recursive call
right_of(dates) == SelectSeq(dates, LAMBDA x : StrLess(pivot_of(dates), x))

\* get_orders_dynamics, lines 107-117: the dict orders_by_date, in insertion order
RECURSIVE OrdersByDate(_, _)
OrdersByDate(by_date, os) ==
    IF os = <<>>
    THEN by_date
    ELSE LET date_str == strftime_Ymd(Head(os).order_date)
             found == {i \in 1..Len(by_date) : by_date[i].date = date_str}
             d == IF found = {}
                  THEN Append(by_date, [date |-> date_str, count |-> 0, revenue |-> 0])
                  ELSE by_date
             k == CHOOSE i \in 1..Len(d) : d[i].date = date_str
         IN  OrdersByDate([d EXCEPT ![k].count = @ + 1,
                                    ![k].revenue = @ + total_amount(Head(os))],
                          Tail(os))

\* get_orders_dynamics: the rows of the returned DataFrame
get_orders_dynamics ==
    LET orders_by_date == OrdersByDate(<<>>, orders)
        keys == [i \in 1..Len(orders_by_date) |-> orders_by_date[i].date]
        sorted_dates == recursive_date_sort(keys)
        Entry(date) == orders_by_date[CHOOSE i \in 1..Len(orders_by_date) :
                                          orders_by_date[i].date = date]
    IN  [i \in 1..Len(sorted_dates) |->
            [date |-> sorted_dates[i],
             order_count |-> Entry(sorted_dates[i]).count,
             revenue |-> Entry(sorted_dates[i]).revenue]]

\* a / b of Python (true division): the exact quotient, kept as a fraction in lowest terms
RECURSIVE GCD(_, _)
GCD(a, b) == IF b = 0 THEN a ELSE GCD(b, a % b)

Abs(a) == IF a < 0 THEN -a ELSE a

Fraction(a, b) ==
    LET g == GCD(Abs(a), b)
    IN  [num |-> a \div g, den |-> b \div g]

Zero == [num |-> 0, den |-> 1]

\* the outcome of a division by zero (Python raises ZeroDivisionError)
DivisionByZero == [num |-> 0, den |-> 0]

TrueDiv(a, b) == IF b = 0 THEN DivisionByZero ELSE Fraction(a, b)

\* mutant: the guard against an empty order list left out
avg_order_value_unguarded(total_revenue, total_orders) ==
    TrueDiv(total_revenue, total_orders)

\* generate_sales_report, lines 379-380
avg_order_value(total_revenue, total_orders) ==
    IF total_orders > 0 THEN TrueDiv(total_revenue, total_orders) ELSE Zero

\* mutant: the guard against an empty client list left out
avg_orders_per_client_unguarded(total_orders, total_clients) ==
    TrueDiv(total_orders, total_clients)

avg_orders_per_client(total_orders, total_clients) ==
    IF total_clients > 0 THEN TrueDiv(total_orders, total_clients) ELSE Zero

\* mutant: the revenue summed over the lines without their quantities
total_revenue_without_quantity(os) ==
    SumSeq([i \in 1..Len(os) |->
               SumSeq([k \in 1..Len(os[i].items) |->
                          products[os[i].items[k].product].price])])

\* generate_sales_report, line 375
total_revenue_of(os) == SumSeq([i \in 1..Len(os) |-> total_amount(os[i])])

ReportTopN == 5

generate_sales_report ==
    LET total_orders == Len(orders)
        total_revenue == total_revenue_of(orders)
        total_clients == Len(clients)
        total_products == Len(products)
    IN  [total_orders |-> total_orders,
         total_revenue |-> total_revenue,
         total_clients |-> total_clients,
         total_products |-> total_products,
         avg_order_value |-> avg_order_value(total_revenue, total_orders),
         avg_orders_per_client |-> avg_orders_per_client(total_orders, total_clients),
         top_clients |-> get_top_clients_by_orders(ReportTopN),
         top_products |-> get_top_products_by_sales(ReportTopN)]

----------------------------------------------------------------------------
(* db.py: Database.  The store is the content of the four tables; a row of *)
(* clients, products and orders is keyed by the object's id (its heap      *)
(* index), the rows of order_items are kept in item_id order.              *)

\* _init_database on a new file: the four tables, empty
EmptyDb == [clients |-> {}, products |-> {}, orders |-> {}, order_items |-> <<>>]

\* datetime.isoformat(): date and time of day, as fixed-width fields
isoformat(dt) == <<dt.year, dt.month, dt.day, dt.hour>>

\* INSERT OR REPLACE INTO clients: the rows in conflict with the new one on
\* the primary key client_id or on the UNIQUE column email are deleted
InsertOrReplaceClient(d, row) ==
    [d EXCEPT !.clients =
        {r \in @ : r.client_id # row.client_id /\ r.email # row.email} \cup {row}]

\* INSERT OR REPLACE INTO products
InsertOrReplaceProduct(d, row) ==
    [d EXCEPT !.products = {r \in @ : r.product_id # row.product_id} \cup {row}]

\* INSERT OR REPLACE INTO orders
InsertOrReplaceOrder(d, row) ==
    [d EXCEPT !.orders = {r \in @ : r.order_id # row.order_id} \cup {row}]

\* mutant: the rows of the order left in place
DeleteOrderItemsNone(d, oid) == d

\* DELETE FROM order_items WHERE order_id = ?
DeleteOrderItems(d, oid) ==
    [d EXCEPT !.order_items = SelectSeq(@, LAMBDA r : r.order_id # oid)]

\* INSERT INTO order_items: a new row with the next item_id
InsertOrderItem(d, row) == [d EXCEPT !.order_items = Append(@, row)]

\* cursor.execute(statement)
Execute(d, stmt) ==
    CASE stmt.kind = "replace_client" -> InsertOrReplaceClient(d, stmt.row)
      [] stmt.kind = "replace_product" -> InsertOrReplaceProduct(d, stmt.row)
      [] stmt.kind = "replace_order" -> InsertOrReplaceOrder(d, stmt.row)
      [] stmt.kind = "delete_items" -> DeleteOrderItems(d, stmt.row.order_id)
      [] stmt.kind = "insert_item" -> InsertOrderItem(d, stmt.row)

RECURSIVE ExecuteAll(_, _)
ExecuteAll(d, stmts) ==
    IF stmts = <<>> THEN d ELSE ExecuteAll(Execute(d, Head(stmts)), Tail(stmts))

\* mutant: a connection in autocommit mode, what was executed stays
RollbackAutocommit(before, working) == working

\* "with sqlite3.connect(...) as conn" left by an exception: conn.rollback()
Rollback(before, working) == before

\* try: with sqlite3.connect(...) as conn: <statements>; conn.commit();
\* return True / except sqlite3.Error: return False.  fail_at is the step at
\* which SQLite raises: 0 for none, i for the i-th statement (a failing
\* connect is a failure before the first statement), Len(stmts) + 1 for
\* the commit.  [ok, db after the call]
Transaction(d, stmts, fail_at) ==
    IF fail_at = 0
    THEN [ok |-> TRUE, db |-> ExecuteAll(d, stmts)]
    ELSE [ok |-> FALSE,
          db |-> Rollback(d, ExecuteAll(d, SubSeq(stmts, 1, fail_at - 1)))]

\* OnlineStoreApp before main(): no window, no collections
NoApp ==
    [clients |-> <<>>, products |-> <<>>, orders |-> <<>>,
     current_order |-> 0, client_var |-> 0]

\* no file exported
NoFile == [fieldnames |-> <<>>, rows |-> <<>>]

\* Database.save_client: the statements it executes
save_client(c) ==
    <<[kind |-> "replace_client",
       row |-> [client_id |-> client_id(c), email |-> clients[c].email]]>>

\* Database.save_product
save_product(p) ==
    <<[kind |-> "replace_product",
       row |-> [product_id |-> product_id(p), price |-> products[p].price]]>>

\* Database.save_order
save_order(o) ==
    <<[kind |-> "replace_order",
       row |-> [order_id |-> order_id(o),
                client_id |-> client_id(orders[o].client),
                order_date |-> isoformat(orders[o].order_date),
                status |-> orders[o].status,
                total_amount |-> total_amount(orders[o])]],
      [kind |-> "delete_items", row |-> [order_id |-> order_id(o)]]>>
    \o [i \in 1..Len(orders[o].items) |->
           [kind |-> "insert_item",
            row |-> [order_id |-> order_id(o),
                     product_id |-> product_id(orders[o].items[i].product),
                     quantity |-> orders[o].items[i].quantity,
                     price |-> products[orders[o].items[i].product].price]]]

----------------------------------------------------------------------------
(* db.py: the loads.  A load creates new objects: it works on the heap     *)
(* [clients, products, orders, ids] and returns [heap, list], the heap     *)
(* after the call and the list of the objects it returns.                  *)

\* the three heaps and the assigned ids, as one value
Heap == [clients |-> clients, products |-> products, orders |-> orders, ids |-> ids]

\* cursor.fetchall() of "SELECT * FROM <table>": the rows in the order of
\* the INTEGER PRIMARY KEY, which is the rowid
RECURSIVE RowsById(_, _)
RowsById(rows, key) ==
    IF rows = {}
    THEN <<>>
    ELSE LET first == CHOOSE r \in rows : \A q \in rows : r[key] <= q[key]
         IN  <<first>> \o RowsById(rows \ {first}, key)

\* datetime.fromisoformat(order_date_str)
fromisoformat(str) ==
    [year |-> str[1], month |-> str[2], day |-> str[3], hour |-> str[4]]

\* Database.load_clients: per row "client = Client(name, email, phone,
\* address); client._client_id = client_id; clients.append(client)"
load_clients(h, d) ==
    LET rows == RowsById(d.clients, "client_id")
        n == Len(h.clients)
    IN  [heap |-> [h EXCEPT
                      !.clients = @ \o [i \in 1..Len(rows) |-> Client_init(rows[i].email)],
                      !.ids.clients = [k \in (n + 1)..(n + Len(rows)) |->
                                          rows[k - n].client_id] @@ @],
         list |-> [i \in 1..Len(rows) |-> n + i]]

\* Database.load_products
load_products(h, d) ==
    LET rows == RowsById(d.products, "product_id")
        n == Len(h.products)
    IN  [heap |-> [h EXCEPT
                      !.products = @ \o [i \in 1..Len(rows) |-> Product_init(rows[i].price)],
                      !.ids.products = [k \in (n + 1)..(n + Len(rows)) |->
                                           rows[k - n].product_id] @@ @],
         list |-> [i \in 1..Len(rows) |-> n + i]]

\* load_orders, the inner loop: "for product_id, quantity in item_rows: if
\* product_id in products: order.add_item(products[product_id], quantity)".
\* ps maps the stored ids to the loaded products, one product per id, so
\* add_item finds the same line by the product as by its id.
RECURSIVE AddItemRows(_, _, _)
AddItemRows(order, item_rows, ps) ==
    IF item_rows = <<>>
    THEN order
    ELSE LET row == Head(item_rows)
             next == IF row.product_id \in DOMAIN ps
                     THEN Order_add_item(order, ps[row.product_id], row.quantity).self
                     ELSE order
         IN  AddItemRows(next, Tail(item_rows), ps)

\* load_orders, the outer loop over order_rows: a row whose client_id is not
\* a loaded client is skipped; otherwise "order = Order(client, order_date)"
\* (which puts the order on the client's list), "order._order_id =
\* order_id", "order.status = status", the items, "orders.append(order)".
\* cs maps the stored ids to the loaded clients.
RECURSIVE LoadOrderRows(_, _, _, _, _, _)
LoadOrderRows(h, d, order_rows, cs, ps, list) ==
    IF order_rows = <<>>
    THEN [heap |-> h, list |-> list]
    ELSE LET row == Head(order_rows)
             o == Len(h.orders) + 1
             client == cs[row.client_id]
             order == [Order_init(client, fromisoformat(row.order_date))
                          EXCEPT !.status = row.status]
             item_rows == SelectSeq(d.order_items, LAMBDA r : r.order_id = row.order_id)
             loaded == [h EXCEPT
                           !.orders = Append(@, AddItemRows(order, item_rows, ps)),
                           !.clients[client] = Client_add_order(@, o),
                           !.ids.orders = (o :> row.order_id) @@ @]
         IN  IF row.client_id \notin DOMAIN cs
             THEN LoadOrderRows(h, d, Tail(order_rows), cs, ps, list)
             ELSE LoadOrderRows(loaded, d, Tail(order_rows), cs, ps, Append(list, o))

\* Database.load_orders: it loads the clients and the products itself
\* ("clients = {client.client_id: client for client in
\* self.load_clients()}") and builds the orders over these objects
load_orders(h, d) ==
    LET lc == load_clients(h, d)
        lp == load_products(lc.heap, d)
        cs == [id \in {lc.heap.ids.clients[c] : c \in Range(lc.list)} |->
                  CHOOSE c \in Range(lc.list) : lc.heap.ids.clients[c] = id]
        ps == [id \in {lp.heap.ids.products[p] : p \in Range(lp.list)} |->
                  CHOOSE p \in Range(lp.list) : lp.heap.ids.products[p] = id]
    IN  LoadOrderRows(lp.heap, d, RowsById(d.orders, "order_id"), cs, ps, <<>>)

----------------------------------------------------------------------------
(* db.py: export_to_csv.                                                   *)

DataTypes == {"clients", "products", "orders"}

\* the keys of the dict returned by Client.to_dict, Product.to_dict and
\* Order.to_dict
to_dict_keys(data_type) ==
    CASE data_type = "clients" ->
             {"name", "email", "phone", "client_id", "address",
              "total_orders", "total_spent"}
      [] data_type = "products" ->
             {"product_id", "name", "price", "category", "description"}
      [] data_type = "orders" ->
             {"order_id", "client", "order_date", "status", "items", "total_amount"}

\* export_to_csv: the fieldnames given to csv.DictWriter
fieldnames_of(data_type) ==
    CASE data_type = "clients" ->
             <<"client_id", "name", "email", "phone", "address",
               "total_orders", "total_spent">>
      [] data_type = "products" ->
             <<"product_id", "name", "price", "category", "description">>
      [] data_type = "orders" ->
             <<"order_id", "client_id", "order_date", "status", "total_amount">>

\* the ids of the objects that load_clients / load_products / load_orders
\* return, in the order of the list
loaded_ids(d, data_type) ==
    LET h == [clients |-> <<>>, products |-> <<>>, orders |-> <<>>, ids |-> NoIds]
    IN  CASE data_type = "clients" ->
                 LET l == load_clients(h, d)
                 IN  [i \in 1..Len(l.list) |-> l.heap.ids.clients[l.list[i]]]
          [] data_type = "products" ->
                 LET l == load_products(h, d)
                 IN  [i \in 1..Len(l.list) |-> l.heap.ids.products[l.list[i]]]
          [] data_type = "orders" ->
                 LET l == load_orders(h, d)
                 IN  [i \in 1..Len(l.list) |-> l.heap.ids.orders[l.list[i]]]

\* Database.export_to_csv: an unknown data_type raises ValueError and an
\* unwritable file OSError before anything is written; writer.writerow
\* raises ValueError on the first dict with a key outside fieldnames, the
\* header being written already; "except Exception" returns False.  The
\* objects loaded for the export are dropped with the call.  A written row
\* is kept by the id in it.  [ok, file after the call]
export_to_csv(d, f, data_type, writable) ==
    IF data_type \notin DataTypes \/ ~writable
    THEN [ok |-> FALSE, file |-> f]
    ELSE LET data == loaded_ids(d, data_type)
             header == [fieldnames |-> fieldnames_of(data_type), rows |-> <<>>]
         IN  IF data = <<>> \/ to_dict_keys(data_type) \subseteq Range(fieldnames_of(data_type))
             THEN [ok |-> TRUE, file |-> [header EXCEPT !.rows = data]]
             ELSE [ok |-> FALSE, file |-> header]

----------------------------------------------------------------------------
(* db.py: import_from_csv / import_from_json.  A row of the file is        *)
(* [kind, value]: kind "ok" with the email (clients) or the price          *)
(* (products), kind "bad" for a row without a required column (KeyError)   *)
(* or, in CSV, with a price that float() rejects (ValueError).             *)

\* the loop of import_from_csv / import_from_json from row i on.  Each row
\* builds an object, whose id is the address it happens to get (addrs[i]),
\* and saves it in a transaction of its own; the value save_client /
\* save_product returns is not looked at, so a save that fails (at row
\* fail_row) is passed over.  A bad row raises out of the loop: "except
\* Exception" returns False with the rows before it saved.  'orders' rows
\* are read and dropped ("pass").  [ok, db after the call]
RECURSIVE import_rows(_, _, _, _, _, _)
import_rows(d, data_type, rows, addrs, fail_row, i) ==
    IF i > Len(rows)
    THEN [ok |-> TRUE, db |-> d]
    ELSE IF data_type \notin {"clients", "products"}
    THEN import_rows(d, data_type, rows, addrs, fail_row, i + 1)
    ELSE IF rows[i].kind = "bad"
    THEN [ok |-> FALSE, db |-> d]
    ELSE LET stmts == IF data_type = "clients"
                      THEN <<[kind |-> "replace_client",
                              row |-> [client_id |-> addrs[i], email |-> rows[i].value]]>>
                      ELSE <<[kind |-> "replace_product",
                              row |-> [product_id |-> addrs[i], price |-> rows[i].value]]>>
             saved == Transaction(d, stmts, IF fail_row = i THEN 1 ELSE 0)
         IN  import_rows(saved.db, data_type, rows, addrs, fail_row, i + 1)

\* Database.import_from_csv / import_from_json: a file that cannot be opened
\* or parsed raises before the first row
import_from(d, data_type, readable, rows, addrs, fail_row) ==
    IF ~readable
    THEN [ok |-> FALSE, db |-> d]
    ELSE import_rows(d, data_type, rows, addrs, fail_row, 1)

----------------------------------------------------------------------------
(* gui.py: OnlineStoreApp.  gui.clients, gui.products and gui.orders are   *)
(* self.clients, self.products and self.orders: lists of objects of the    *)
(* heaps; gui.current_order is self.current_order (0 for None);            *)
(* gui.client_var is the client whose name the combo box of the order form *)
(* shows (0 for the empty string), the clients having distinct names.      *)

\* _show_top_clients: "analyzer.get_top_clients_by_orders(8)"
ChartTopN == 8

\* DataAnalyzer(self.clients, self.products, self.orders): client_orders of
\* get_top_clients_by_orders over the clients of the application
app_client_orders ==
    [i \in 1..Len(gui.clients) |->
        [client |-> gui.clients[i],
         order_count |-> Len(clients[gui.clients[i]].orders),
         total_spent |-> get_total_spent(clients[gui.clients[i]])]]

\* get_top_clients_by_orders(top_n) of that analyzer
app_top_clients(top_n) ==
    PySlice(SortedReverse(app_client_orders, "order_count"), top_n)

\* _clear_current_order
clear_current_order(g) == [g EXCEPT !.current_order = 0, !.client_var = 0]

----------------------------------------------------------------------------
(* Inputs.                                                                 *)

Emails ==
    { <<"a", "@", "b", ".", "c", "o">>,
      <<"u", "+", "t", "@", "e", ".", "o", "r", "g">>,
      <<"@", "b", ".", "c", "o">>,
      <<"a", "@", "b", ".", "c">> }

ValidEmail == <<"a", "@", "b", ".", "c", "o">>

Prices == {-1, 0, 2}
Quantities == {-1, 0, 1, 2}

\* prices and quantities of the sales the analyzer is run on: the products
\* of the catalogue cost 3, 1, 2, 3, 1, 2, ... in the order they are created
Catalogue == <<3, 1, 2>>
NextPrice == Catalogue[(Len(products) % Len(Catalogue)) + 1]
SaleQuantities == 1..MaxQuantity

DateTime(y, m, d, h) == [year |-> y, month |-> m, day |-> d, hour |-> h]
DateTimes ==
    { DateTime(2022, 12, 31, 9), DateTime(2023, 1, 3, 9),
      DateTime(2023, 1, 1, 9), DateTime(2023, 1, 1, 18) }
Noon == DateTime(2023, 1, 2, 12)

\* a second well-formed email
OtherEmail == <<"u", "+", "t", "@", "e", ".", "o", "r", "g">>

\* the rows a file to import may hold
FileRows(data_type) ==
    CASE data_type = "clients" ->
             {[kind |-> "ok", value |-> ValidEmail],
              [kind |-> "ok", value |-> OtherEmail],
              [kind |-> "bad", value |-> <<>>]}
      [] data_type = "products" ->
             {[kind |-> "ok", value |-> 2], [kind |-> "bad", value |-> 0]}
      [] data_type = "orders" -> {[kind |-> "ok", value |-> 0]}

\* the files: up to MaxRows rows
Files(data_type) == UNION {[1..n -> FileRows(data_type)] : n \in 0..MaxRows}

\* the addresses, hence ids, that the objects built by an import may get:
\* two addresses free of the objects of the heaps; an object is built while
\* the one of the row before is still referenced, so neighbours differ, and
\* an address is taken again once its object is dropped
ImportAddresses == {11, 12}
Addresses(n) ==
    {a \in [1..n -> ImportAddresses] : \A i \in 1..(n - 1) : a[i] # a[i + 1]}

\* the keys of orders_by_date: four days, as strftime('%Y-%m-%d') writes them
DateStrings == {strftime_Ymd(dt) : dt \in DateTimes \cup {Noon}}
DateLists == UNION {[1..n -> DateStrings] : n \in 0..MaxDates}

----------------------------------------------------------------------------
Init ==
    /\ clients = <<>>
    /\ products = <<>>
    /\ orders = <<>>
    /\ item = NoItem
    /\ db = EmptyDb
    /\ ids = NoIds
    /\ gui = NoApp
    /\ file = NoFile
    /\ op = Call("start", <<>>)
    /\ ret = ReturnNone

(* Client(name, email, phone, address) *)
NewClient(email) ==
    /\ Len(clients) < MaxClients
    /\ clients' = Append(clients, Client_init(email))
    /\ op' = Call("Client", <<email>>)
    /\ ret' = ReturnNone
    /\ UNCHANGED <<products, orders, item, db, ids, gui, file>>

(* client.email = value *)
SetEmail(c, value) ==
    /\ c \in 1..Len(clients)
    /\ LET r == Person_email_set(clients[c], value)
       IN  /\ clients' = [clients EXCEPT ![c] = r.self]
           /\ ret' = IF r.raised THEN Raise("ValueError") ELSE ReturnNone
    /\ op' = Call("Client.email=", <<c, value>>)
    /\ UNCHANGED <<products, orders, item, db, ids, gui, file>>

(* Product(name, price, category, description) *)
NewProduct(price) ==
    /\ Len(products) < MaxProducts
    /\ products' = Append(products, Product_init(price))
    /\ op' = Call("Product", <<price>>)
    /\ ret' = ReturnNone
    /\ UNCHANGED <<clients, orders, item, db, ids, gui, file>>

(* product.price = value *)
SetPrice(p, value) ==
    /\ p \in 1..Len(products)
    /\ LET r == Product_price_set(products[p], value)
       IN  /\ products' = [products EXCEPT ![p] = r.self]
           /\ ret' = IF r.raised THEN Raise("ValueError") ELSE ReturnNone
    /\ op' = Call("Product.price=", <<p, value>>)
    /\ UNCHANGED <<clients, orders, item, db, ids, gui, file>>

(* item = OrderItem(product, quantity) *)
NewOrderItem(p, quantity) ==
    /\ p \in 1..Len(products)
    /\ item' = OrderItem_init(p, quantity)
    /\ op' = Call("OrderItem", <<p, quantity>>)
    /\ ret' = ReturnNone
    /\ UNCHANGED <<clients, products, orders, db, ids, gui, file>>

(* item.quantity = value *)
SetQuantity(value) ==
    /\ item # NoItem
    /\ LET r == OrderItem_quantity_set(item, value)
       IN  /\ item' = r.self
           /\ ret' = IF r.raised THEN Raise("ValueError") ELSE ReturnNone
    /\ op' = Call("OrderItem.quantity=", <<value>>)
    /\ UNCHANGED <<clients, products, orders, db, ids, gui, file>>

(* order = Order(client, order_date) *)
NewOrder(c, order_date) ==
    /\ Len(orders) < MaxOrders
    /\ c \in 1..Len(clients)
    /\ orders' = Append(orders, Order_init(c, order_date))
    /\ clients' = [clients EXCEPT ![c] = Client_add_order(@, Len(orders) + 1)]
    /\ op' = Call("Order", <<c, order_date>>)
    /\ ret' = ReturnNone
    /\ UNCHANGED <<products, item, db, ids, gui, file>>

(* order.add_item(product, quantity) *)
AddItem(o, p, quantity) ==
    /\ o \in 1..Len(orders)
    /\ p \in 1..Len(products)
    /\ LET r == Order_add_item(orders[o], p, quantity)
       IN  /\ \A i \in 1..Len(r.self.items) : r.self.items[i].quantity <= MaxQuantity
           /\ SumSeq([k \in 1..Len(orders) |->
                         IF k = o THEN Len(r.self.items) ELSE Len(orders[k].items)])
                 <= MaxLines
           /\ orders' = [orders EXCEPT ![o] = r.self]
           /\ ret' = IF r.raised THEN Raise("ValueError") ELSE ReturnNone
    /\ op' = Call("Order.add_item", <<o, p, quantity>>)
    /\ UNCHANGED <<clients, products, item, db, ids, gui, file>>

(* order.remove_item(product); an OrderItem left out of the rebuilt list is *)
(* no longer part of an order: it is the free-standing `item` from then on *)
RemoveItem(o, p) ==
    /\ o \in 1..Len(orders)
    /\ p \in 1..Len(products)
    /\ orders' = [orders EXCEPT ![o] = Order_remove_item(@, p)]
    /\ LET dropped == SelectSeq(orders[o].items, LAMBDA it : it.product = p)
       IN  item' = IF dropped = <<>> THEN item ELSE dropped[Len(dropped)]
    /\ op' = Call("Order.remove_item", <<o, p>>)
    /\ ret' = ReturnNone
    /\ UNCHANGED <<clients, products, db, ids, gui, file>>

(* client.add_order(order): any client, any order *)
AddOrder(c, o) ==
    /\ c \in 1..Len(clients)
    /\ o \in 1..Len(orders)
    /\ clients' = [clients EXCEPT ![c] = Client_add_order(@, o)]
    /\ op' = Call("Client.add_order", <<c, o>>)
    /\ ret' = ReturnNone
    /\ UNCHANGED <<products, orders, item, db, ids, gui, file>>

(* client.orders: a copy of the list *)
GetOrders(c) ==
    /\ c \in 1..Len(clients)
    /\ op' = Call("Client.orders", <<c>>)
    /\ ret' = Return(clients[c].orders)
    /\ UNCHANGED <<clients, products, orders, item, db, ids, gui, file>>

(* order.client *)
GetClient(o) ==
    /\ o \in 1..Len(orders)
    /\ op' = Call("Order.client", <<o>>)
    /\ ret' = Return(orders[o].client)
    /\ UNCHANGED <<clients, products, orders, item, db, ids, gui, file>>

(* order.total_amount *)
GetTotalAmount(o) ==
    /\ o \in 1..Len(orders)
    /\ op' = Call("Order.total_amount", <<o>>)
    /\ ret' = Return(total_amount(orders[o]))
    /\ UNCHANGED <<clients, products, orders, item, db, ids, gui, file>>

(* client.get_total_spent() *)
GetTotalSpent(c) ==
    /\ c \in 1..Len(clients)
    /\ op' = Call("Client.get_total_spent", <<c>>)
    /\ ret' = Return(get_total_spent(clients[c]))
    /\ UNCHANGED <<clients, products, orders, item, db, ids, gui, file>>

(* order.status = value *)
SetStatus(o, value) ==
    /\ o \in 1..Len(orders)
    /\ orders' = [orders EXCEPT ![o].status = value]
    /\ op' = Call("Order.status=", <<o, value>>)
    /\ ret' = ReturnNone
    /\ UNCHANGED <<clients, products, item, db, ids, gui, file>>

(* mutant of GetTopClients: the client list sorted in place                *)
(* (self.clients.sort(...) for sorted(...))                                 *)
GetTopClientsSortingInPlace(top_n) ==
    /\ op' = Call("get_top_clients_by_orders", <<top_n>>)
    /\ ret' = Return(get_top_clients_by_orders(top_n))
    /\ clients' = LET ranking == SortedReverse(client_orders, "order_count")
                  IN  [i \in 1..Len(clients) |-> clients[ranking[i].client]]
    /\ UNCHANGED <<products, orders, item, db, ids, gui, file>>

(* db.save_client(client), SQLite failing at step fail_at (0: not at all) *)
SaveClient(c, fail_at) ==
    /\ c \in 1..Len(clients)
    /\ fail_at \in 0..(Len(save_client(c)) + 1)
    /\ LET r == Transaction(db, save_client(c), fail_at)
       IN  db' = r.db /\ ret' = Return(r.ok)
    /\ op' = Call("save_client", <<c, fail_at>>)
    /\ UNCHANGED <<clients, products, orders, item, ids, gui, file>>

(* db.save_product(product) *)
SaveProduct(p, fail_at) ==
    /\ p \in 1..Len(products)
    /\ fail_at \in 0..(Len(save_product(p)) + 1)
    /\ LET r == Transaction(db, save_product(p), fail_at)
       IN  db' = r.db /\ ret' = Return(r.ok)
    /\ op' = Call("save_product", <<p, fail_at>>)
    /\ UNCHANGED <<clients, products, orders, item, ids, gui, file>>

(* db.save_order(order) *)
SaveOrder(o, fail_at) ==
    /\ o \in 1..Len(orders)
    /\ fail_at \in 0..(Len(save_order(o)) + 1)
    /\ LET r == Transaction(db, save_order(o), fail_at)
       IN  db' = r.db /\ ret' = Return(r.ok)
    /\ op' = Call("save_order", <<o, fail_at>>)
    /\ UNCHANGED <<clients, products, orders, item, ids, gui, file>>

(* analyzer._recursive_date_sort(dates), called from outside (depth 0) *)
RecursiveDateSort(dates) ==
    /\ op' = Call("_recursive_date_sort", <<dates, 0>>)
    /\ ret' = Return(recursive_date_sort(dates))
    /\ UNCHANGED <<clients, products, orders, item, db, ids, gui, file>>

(* the call "self._recursive_date_sort(left)" made by the call in op *)
SortLeft ==
    /\ op.name = "_recursive_date_sort"
    /\ Len(op.args[1]) > 1
    /\ op' = Call("_recursive_date_sort", <<left_of(op.args[1]), op.args[2] + 1>>)
    /\ ret' = Return(recursive_date_sort(left_of(op.args[1])))
    /\ UNCHANGED <<clients, products, orders, item, db, ids, gui, file>>

(* the call "self._recursive_date_sort(right)" made by the call in op *)
SortRight ==
    /\ op.name = "_recursive_date_sort"
    /\ Len(op.args[1]) > 1
    /\ op' = Call("_recursive_date_sort", <<right_of(op.args[1]), op.args[2] + 1>>)
    /\ ret' = Return(recursive_date_sort(right_of(op.args[1])))
    /\ UNCHANGED <<clients, products, orders, item, db, ids, gui, file>>

(* db.load_orders(): the orders returned, and the objects created for them. *)
(* The store is loaded once in a run of the program (ids = NoIds: nothing  *)
(* has been loaded yet).                                                   *)
LoadOrders ==
    /\ ids = NoIds
    /\ LET l == load_orders(Heap, db)
       IN  /\ clients' = l.heap.clients
           /\ products' = l.heap.products
           /\ orders' = l.heap.orders
           /\ ids' = l.heap.ids
           /\ ret' = Return(l.list)
    /\ op' = Call("load_orders", <<>>)
    /\ UNCHANGED <<item, db, gui, file>>

(* OnlineStoreApp.__init__: "self.clients = self.db.load_clients();        *)
(* self.products = self.db.load_products(); self.orders =                  *)
(* self.db.load_orders()", no current order, nothing selected              *)
AppInit ==
    /\ ids = NoIds
    /\ LET lc == load_clients(Heap, db)
           lp == load_products(lc.heap, db)
           lo == load_orders(lp.heap, db)
       IN  /\ clients' = lo.heap.clients
           /\ products' = lo.heap.products
           /\ orders' = lo.heap.orders
           /\ ids' = lo.heap.ids
           /\ gui' = [clients |-> lc.list, products |-> lp.list, orders |-> lo.list,
                      current_order |-> 0, client_var |-> 0]
    /\ op' = Call("OnlineStoreApp", <<>>)
    /\ ret' = ReturnNone
    /\ UNCHANGED <<item, db, file>>

(* db.export_to_csv(filename, data_type); writable: open(filename, 'w')    *)
(* succeeds                                                                *)
ExportToCsv(data_type, writable) ==
    /\ LET r == export_to_csv(db, file, data_type, writable)
       IN  file' = r.file /\ ret' = Return(r.ok)
    /\ op' = Call("export_to_csv", <<data_type, writable>>)
    /\ UNCHANGED <<clients, products, orders, item, db, ids, gui>>

(* db.import_from_csv(filename, data_type) on a file of the given rows;    *)
(* readable: the file opens; addrs: the ids of the objects built for the   *)
(* rows; fail_row: the row whose save SQLite fails (0: none)               *)
ImportFromCsv(data_type, readable, rows, addrs, fail_row) ==
    /\ LET r == import_from(db, data_type, readable, rows, addrs, fail_row)
       IN  db' = r.db /\ ret' = Return(r.ok)
    /\ op' = Call("import_from_csv", <<data_type, readable, rows, addrs, fail_row>>)
    /\ UNCHANGED <<clients, products, orders, item, ids, gui, file>>

(* db.import_from_json(filename, data_type); readable: the file opens and  *)
(* json.load accepts it                                                    *)
ImportFromJson(data_type, readable, rows, addrs, fail_row) ==
    /\ LET r == import_from(db, data_type, readable, rows, addrs, fail_row)
       IN  db' = r.db /\ ret' = Return(r.ok)
    /\ op' = Call("import_from_json", <<data_type, readable, rows, addrs, fail_row>>)
    /\ UNCHANGED <<clients, products, orders, item, ids, gui, file>>

(* _add_client: the form filled in; Client(...), then "if                  *)
(* self.db.save_client(client): self.clients.append(client)".  A client    *)
(* whose save failed is dropped with the call.                             *)
GuiAddClient(email, fail_at) ==
    /\ Len(clients) < MaxClients
    /\ LET c == Len(clients) + 1
           created == Append(clients, Client_init(email))
           stmts == <<[kind |-> "replace_client",
                       row |-> [client_id |-> c, email |-> email]]>>
           r == Transaction(db, stmts, fail_at)
       IN  /\ db' = r.db
           /\ clients' = IF r.ok THEN created ELSE clients
           /\ gui' = IF r.ok THEN [gui EXCEPT !.clients = Append(@, c)] ELSE gui
    /\ op' = Call("_add_client", <<email, fail_at>>)
    /\ ret' = ReturnNone
    /\ UNCHANGED <<products, orders, item, ids, file>>

(* _delete_client with client c selected in the table and the question     *)
(* answered with yes: "self.clients = [c for c in self.clients if          *)
(* c.client_id != client_id]"                                              *)
GuiDeleteClient(c) ==
    /\ c \in Range(gui.clients)
    /\ gui' = [gui EXCEPT !.clients =
                  SelectSeq(@, LAMBDA x : client_id(x) # client_id(c))]
    /\ op' = Call("_delete_client", <<c>>)
    /\ ret' = ReturnNone
    /\ UNCHANGED <<clients, products, orders, item, db, ids, file>>

(* _add_product *)
GuiAddProduct(price, fail_at) ==
    /\ Len(products) < MaxProducts
    /\ LET p == Len(products) + 1
           created == Append(products, Product_init(price))
           stmts == <<[kind |-> "replace_product",
                       row |-> [product_id |-> p, price |-> price]]>>
           r == Transaction(db, stmts, fail_at)
       IN  /\ db' = r.db
           /\ products' = IF r.ok THEN created ELSE products
           /\ gui' = IF r.ok THEN [gui EXCEPT !.products = Append(@, p)] ELSE gui
    /\ op' = Call("_add_product", <<price, fail_at>>)
    /\ ret' = ReturnNone
    /\ UNCHANGED <<clients, orders, item, ids, file>>

(* _delete_product *)
GuiDeleteProduct(p) ==
    /\ p \in Range(gui.products)
    /\ gui' = [gui EXCEPT !.products =
                  SelectSeq(@, LAMBDA x : product_id(x) # product_id(p))]
    /\ op' = Call("_delete_product", <<p>>)
    /\ ret' = ReturnNone
    /\ UNCHANGED <<clients, products, orders, item, db, ids, file>>

(* the user picks client c in the combo box of the order form *)
GuiSelectClient(c) ==
    /\ c \in Range(gui.clients)
    /\ gui.client_var # c
    /\ gui' = [gui EXCEPT !.client_var = c]
    /\ op' = Call("client_combo.select", <<c>>)
    /\ ret' = ReturnNone
    /\ UNCHANGED <<clients, products, orders, item, db, ids, file>>

(* _add_product_to_order with product p picked and the quantity typed: no  *)
(* client picked, a quantity <= 0 or a client no longer in self.clients    *)
(* end the call; "if not self.current_order: self.current_order =          *)
(* Order(client)"; "self.current_order.add_item(product, quantity)", whose *)
(* ValueError is caught and shown                                          *)
GuiAddProductToOrder(p, quantity) ==
    /\ p \in Range(gui.products)
    /\ LET client == gui.client_var
           rejected == client = 0 \/ quantity <= 0 \/ client \notin Range(gui.clients)
           new == gui.current_order = 0
           o == IF new THEN Len(orders) + 1 ELSE gui.current_order
           before == IF new THEN Order_init(client, Noon) ELSE orders[o]
           r == Order_add_item(before, p, quantity)
       IN  IF rejected
           THEN UNCHANGED <<clients, orders, gui>>
           ELSE /\ new => Len(orders) < MaxOrders
                /\ \A i \in 1..Len(r.self.items) : r.self.items[i].quantity <= MaxQuantity
                /\ Len(r.self.items) <= MaxLines
                /\ orders' = IF new THEN Append(orders, r.self)
                             ELSE [orders EXCEPT ![o] = r.self]
                /\ clients' = IF new
                              THEN [clients EXCEPT ![client] = Client_add_order(@, o)]
                              ELSE clients
                /\ gui' = [gui EXCEPT !.current_order = o]
    /\ op' = Call("_add_product_to_order", <<p, quantity>>)
    /\ ret' = ReturnNone
    /\ UNCHANGED <<products, item, db, ids, file>>

(* _create_order: without a current order with lines the call ends; "if    *)
(* self.db.save_order(self.current_order): self.orders.append(...);        *)
(* self._clear_current_order()"                                            *)
GuiCreateOrder(fail_at) ==
    /\ LET o == gui.current_order
       IN  IF o = 0 \/ orders[o].items = <<>>
           THEN fail_at = 0 /\ UNCHANGED <<db, gui>>
           ELSE LET r == Transaction(db, save_order(o), fail_at)
                IN  /\ fail_at \in 0..(Len(save_order(o)) + 1)
                    /\ db' = r.db
                    /\ gui' = IF r.ok
                              THEN clear_current_order([gui EXCEPT !.orders = Append(@, o)])
                              ELSE gui
    /\ op' = Call("_create_order", <<fail_at>>)
    /\ ret' = ReturnNone
    /\ UNCHANGED <<clients, products, orders, item, ids, file>>

(* the button "clear current order": _clear_current_order *)
GuiClearCurrentOrder ==
    /\ gui' = clear_current_order(gui)
    /\ op' = Call("_clear_current_order", <<>>)
    /\ ret' = ReturnNone
    /\ UNCHANGED <<clients, products, orders, item, db, ids, file>>

(* _show_top_clients: the ranking that the chart shows *)
GuiShowTopClients ==
    /\ op' = Call("_show_top_clients", <<>>)
    /\ ret' = Return(app_top_clients(ChartTopN))
    /\ UNCHANGED <<clients, products, orders, item, db, ids, gui, file>>

(* DataAnalyzer(clients, products, orders).get_top_clients_by_orders(top_n) *)
GetTopClients(top_n) ==
    /\ op' = Call("get_top_clients_by_orders", <<top_n>>)
    /\ ret' = Return(get_top_clients_by_orders(top_n))
    /\ UNCHANGED <<clients, products, orders, item, db, ids, gui, file>>

(* DataAnalyzer(clients, products, orders).get_top_products_by_sales(top_n) *)
GetTopProducts(top_n) ==
    /\ op' = Call("get_top_products_by_sales", <<top_n>>)
    /\ ret' = Return(get_top_products_by_sales(top_n))
    /\ UNCHANGED <<clients, products, orders, item, db, ids, gui, file>>

(* DataAnalyzer(clients, products, orders).get_orders_dynamics() *)
GetOrdersDynamics ==
    /\ op' = Call("get_orders_dynamics", <<>>)
    /\ ret' = Return(get_orders_dynamics)
    /\ UNCHANGED <<clients, products, orders, item, db, ids, gui, file>>

(* DataAnalyzer(clients, products, orders).generate_sales_report() *)
GenerateSalesReport ==
    /\ op' = Call("generate_sales_report", <<>>)
    /\ ret' = LET r == generate_sales_report
              IN  IF r.avg_order_value = DivisionByZero
                     \/ r.avg_orders_per_client = DivisionByZero
                  THEN Raise("ZeroDivisionError")
                  ELSE Return(r)
    /\ UNCHANGED <<clients, products, orders, item, db, ids, gui, file>>

----------------------------------------------------------------------------
(* SpecModels: construction and mutation of single entities.               *)

NextModels ==
    \/ \E e \in Emails : NewClient(e)
    \/ \E c \in 1..MaxClients, e \in Emails : SetEmail(c, e)
    \/ \E v \in Prices : NewProduct(v)
    \/ \E p \in 1..MaxProducts, v \in Prices : SetPrice(p, v)
    \/ \E p \in 1..MaxProducts, q \in Quantities : NewOrderItem(p, q)
    \/ \E q \in Quantities : SetQuantity(q)

SpecModels == Init /\ [][NextModels]_vars

----------------------------------------------------------------------------
(* Spec: clients and their orders; the ranking of clients and the report.  *)

Next ==
    \/ NewClient(ValidEmail)
    \/ NewProduct(NextPrice)
    \/ \E c \in 1..MaxClients : NewOrder(c, Noon)
    \/ \E o \in 1..MaxOrders, q \in SaleQuantities : AddItem(o, 1, q)
    \/ \E n \in 0..MaxTopN : GetTopClients(n)
    \/ GenerateSalesReport

Spec == Init /\ [][Next]_vars

----------------------------------------------------------------------------
(* SpecProducts: the sales of products; the ranking of products.           *)

OneClient ==
    /\ clients = <<Client_init(ValidEmail)>>
    /\ products = <<>>
    /\ orders = <<>>
    /\ item = NoItem
    /\ db = EmptyDb
    /\ ids = NoIds
    /\ gui = NoApp
    /\ file = NoFile
    /\ op = Call("Client", <<ValidEmail>>)
    /\ ret = ReturnNone

NextProducts ==
    \/ NewProduct(NextPrice)
    \/ NewOrder(1, Noon)
    \/ \E o \in 1..MaxOrders, p \in 1..MaxProducts, q \in SaleQuantities : AddItem(o, p, q)
    \/ \E n \in 0..MaxTopN : GetTopProducts(n)

SpecProducts == OneClient /\ [][NextProducts]_vars

----------------------------------------------------------------------------
(* SpecDynamics: orders over the calendar; the orders time series.         *)

OneClientOneProduct ==
    /\ clients = <<Client_init(ValidEmail)>>
    /\ products = <<Product_init(3)>>
    /\ orders = <<>>
    /\ item = NoItem
    /\ db = EmptyDb
    /\ ids = NoIds
    /\ gui = NoApp
    /\ file = NoFile
    /\ op = Call("Product", <<3>>)
    /\ ret = ReturnNone

NextDynamics ==
    \/ \E dt \in DateTimes : NewOrder(1, dt)
    \/ \E o \in 1..MaxOrders, q \in SaleQuantities : AddItem(o, 1, q)
    \/ GetOrdersDynamics

SpecDynamics == OneClientOneProduct /\ [][NextDynamics]_vars

----------------------------------------------------------------------------
(* SpecOrder: the lines of one order of two products, added and removed    *)
(* with any quantity.                                                      *)

OneOrderTwoProducts ==
    /\ clients = <<Client_add_order(Client_init(ValidEmail), 1)>>
    /\ products = <<Product_init(3), Product_init(1)>>
    /\ orders = <<Order_init(1, Noon)>>
    /\ item = NoItem
    /\ db = EmptyDb
    /\ ids = NoIds
    /\ gui = NoApp
    /\ file = NoFile
    /\ op = Call("Order", <<1, Noon>>)
    /\ ret = ReturnNone

NextOrder ==
    \/ \E p \in 1..MaxProducts, q \in Quantities : AddItem(1, p, q)
    \/ \E p \in 1..MaxProducts : RemoveItem(1, p)

SpecOrder == OneOrderTwoProducts /\ [][NextOrder]_vars

----------------------------------------------------------------------------
(* SpecLinks: clients, orders and the order lists of the clients.          *)

NextLinks ==
    \/ NewClient(ValidEmail)
    \/ \E c \in 1..MaxClients : NewOrder(c, Noon)
    \/ \E c \in 1..MaxClients, o \in 1..MaxOrders : AddOrder(c, o)
    \/ \E c \in 1..MaxClients : GetOrders(c)
    \/ \E o \in 1..MaxOrders : GetClient(o)

SpecLinks == Init /\ [][NextLinks]_vars

----------------------------------------------------------------------------
(* SpecTotals: the totals of orders and of a client while lines are added  *)
(* and the price of a product changes.                                     *)

OneClientTwoProducts ==
    /\ clients = <<Client_init(ValidEmail)>>
    /\ products = <<Product_init(3), Product_init(1)>>
    /\ orders = <<>>
    /\ item = NoItem
    /\ db = EmptyDb
    /\ ids = NoIds
    /\ gui = NoApp
    /\ file = NoFile
    /\ op = Call("Client", <<ValidEmail>>)
    /\ ret = ReturnNone

NextTotals ==
    \/ \E v \in Prices : SetPrice(1, v)
    \/ NewOrder(1, Noon)
    \/ \E o \in 1..MaxOrders, p \in 1..MaxProducts, q \in SaleQuantities : AddItem(o, p, q)
    \/ \E o \in 1..MaxOrders : GetTotalAmount(o)
    \/ GetTotalSpent(1)

SpecTotals == OneClientTwoProducts /\ [][NextTotals]_vars

----------------------------------------------------------------------------
(* SpecAnalysis: the four aggregation functions of one analyzer, called    *)
(* on the collections from the empty ones on.                              *)

NextAnalysis ==
    \/ NewClient(ValidEmail)
    \/ NewProduct(NextPrice)
    \/ \E c \in 1..MaxClients : NewOrder(c, Noon)
    \/ \E q \in SaleQuantities : AddItem(1, 1, q)
    \/ SetStatus(1, "Done")
    \/ \E n \in 0..MaxTopN : GetTopClients(n)
    \/ \E n \in 0..MaxTopN : GetTopProducts(n)
    \/ GetOrdersDynamics
    \/ GenerateSalesReport

SpecAnalysis == Init /\ [][NextAnalysis]_vars

----------------------------------------------------------------------------
(* SpecDb: one order of two products, changed and saved to the store while *)
(* SQLite may fail at any step of a save.                                  *)

\* the longest save: the order row, the delete, one insert per line, the commit
MaxSteps == MaxLines + 3

NextDb ==
    \/ \E p \in 1..MaxProducts, q \in SaleQuantities : AddItem(1, p, q)
    \/ \E f \in 0..MaxSteps : SaveClient(1, f)
    \/ \E p \in 1..MaxProducts, f \in 0..MaxSteps : SaveProduct(p, f)
    \/ \E f \in 0..MaxSteps : SaveOrder(1, f)

SpecDb == OneOrderTwoProducts /\ [][NextDb]_vars

----------------------------------------------------------------------------
(* SpecStore: the store written by saves and imports and exported to CSV.  *)

NextStore ==
    \/ NewClient(ValidEmail)
    \/ \E p \in 1..MaxProducts, q \in SaleQuantities : AddItem(1, p, q)
    \/ \E c \in 1..MaxClients : SaveClient(c, 0)
    \/ \E p \in 1..MaxProducts : SaveProduct(p, 0)
    \/ SaveOrder(1, 0)
    \/ \E t \in DataTypes \cup {"payments"}, w \in BOOLEAN : ExportToCsv(t, w)

SpecStore == OneOrderTwoProducts /\ [][NextStore]_vars

----------------------------------------------------------------------------
(* SpecImport: files of clients, of products and of orders imported into   *)
(* the store that holds a saved client.                                    *)

NextImport ==
    \/ SaveClient(1, 0)
    \/ \E t \in DataTypes, readable \in BOOLEAN :
           \E rows \in Files(t) :
               \E addrs \in Addresses(Len(rows)), fail_row \in 0..Len(rows) :
                   \/ ImportFromCsv(t, readable, rows, addrs, fail_row)
                   \/ ImportFromJson(t, readable, rows, addrs, fail_row)

SpecImport == OneOrderTwoProducts /\ [][NextImport]_vars

----------------------------------------------------------------------------
(* SpecLoad: one order of two products, changed and saved by one run of    *)
(* the program and loaded by the next (ids = NoIds: nothing loaded yet),   *)
(* by load_orders or by the start of the application, which can then show  *)
(* its top clients.                                                        *)

OneDoneOrderTwoProducts ==
    /\ clients = <<Client_add_order(Client_init(ValidEmail), 1)>>
    /\ products = <<Product_init(3), Product_init(1)>>
    /\ orders = <<[Order_init(1, Noon) EXCEPT !.status = "Done"]>>
    /\ item = NoItem
    /\ db = EmptyDb
    /\ ids = NoIds
    /\ gui = NoApp
    /\ file = NoFile
    /\ op = Call("Order.status=", <<1, "Done">>)
    /\ ret = ReturnNone

NextLoad ==
    \/ ids = NoIds /\ \E p \in 1..MaxProducts, q \in SaleQuantities : AddItem(1, p, q)
    \/ ids = NoIds /\ \E p \in 1..MaxProducts : RemoveItem(1, p)
    \/ ids = NoIds /\ SaveClient(1, 0)
    \/ ids = NoIds /\ \E p \in 1..MaxProducts : SaveProduct(p, 0)
    \/ ids = NoIds /\ SaveOrder(1, 0)
    \/ LoadOrders
    \/ AppInit
    \/ gui.clients # <<>> /\ GuiShowTopClients

SpecLoad == OneDoneOrderTwoProducts /\ [][NextLoad]_vars

----------------------------------------------------------------------------
(* SpecCatalogue: the application started on an empty store; clients and  *)
(* products added and deleted through its handlers, a save failing or not. *)

NextCatalogue ==
    \/ \E email \in {ValidEmail, OtherEmail}, f \in 0..1 : GuiAddClient(email, f)
    \/ \E c \in 1..Len(clients) : GuiDeleteClient(c)
    \/ \E f \in 0..1 : GuiAddProduct(NextPrice, f)
    \/ \E p \in 1..Len(products) : GuiDeleteProduct(p)

SpecCatalogue == Init /\ [][NextCatalogue]_vars

----------------------------------------------------------------------------
(* SpecGui: the order form of the application, which holds two clients and *)
(* two products added before.                                              *)

TwoClientsTwoProductsAdded ==
    /\ clients = <<Client_init(ValidEmail), Client_init(OtherEmail)>>
    /\ products = <<Product_init(3), Product_init(1)>>
    /\ orders = <<>>
    /\ item = NoItem
    /\ db = [EmptyDb EXCEPT
                !.clients = {[client_id |-> 1, email |-> ValidEmail],
                             [client_id |-> 2, email |-> OtherEmail]},
                !.products = {[product_id |-> 1, price |-> 3],
                              [product_id |-> 2, price |-> 1]}]
    /\ ids = NoIds
    /\ gui = [NoApp EXCEPT !.clients = <<1, 2>>, !.products = <<1, 2>>]
    /\ file = NoFile
    /\ op = Call("_add_product", <<1, 0>>)
    /\ ret = ReturnNone

NextGui ==
    \/ \E c \in 1..Len(clients) : GuiSelectClient(c)
    \/ \E p \in 1..Len(products), q \in 0..MaxQuantity : GuiAddProductToOrder(p, q)
    \/ \E f \in 0..1 : GuiCreateOrder(f)
    \/ GuiClearCurrentOrder
    \/ GuiShowTopClients

SpecGui == TwoClientsTwoProductsAdded /\ [][NextGui]_vars

----------------------------------------------------------------------------
(* SpecSort: _recursive_date_sort on every list of up to MaxDates dates,   *)
(* and the recursive calls each call makes.                                *)

NextSort ==
    \/ \E dates \in DateLists : RecursiveDateSort(dates)
    \/ SortLeft
    \/ SortRight

SpecSort == Init /\ [][NextSort]_vars

----------------------------------------------------------------------------
(* What the claims speak of, stated on the heaps without the analyzer.     *)

RECURSIVE SumOver(_, _)
SumOver(f, S) ==
    IF S = {}
    THEN 0
    ELSE LET x == CHOOSE y \in S : TRUE
         IN  f[x] + SumOver(f, S \ {x})

\* the lines of all orders, as (order, position) pairs
AllLines == {<<o, i>> \in (1..Len(orders)) \X (1..MaxLines) : i <= Len(orders[o].items)}
LineOf(l) == orders[l[1]].items[l[2]]
LinePrice(l) == LineOf(l).quantity * products[LineOf(l).product].price

OrderTotal(o) ==
    SumOver([l \in AllLines |-> LinePrice(l)], {l \in AllLines : l[1] = o})

OrdersOf(c) == {o \in 1..Len(orders) : o \in Range(clients[c].orders)}
OrderCount(c) == Cardinality(OrdersOf(c))
Spent(c) == SumOver([o \in 1..Len(orders) |-> OrderTotal(o)], OrdersOf(c))

SoldProducts == {LineOf(l).product : l \in AllLines}
LinesOfProduct(p) == {l \in AllLines : LineOf(l).product = p}
UnitsSold(p) == SumOver([l \in AllLines |-> LineOf(l).quantity], LinesOfProduct(p))
Revenue(p) == SumOver([l \in AllLines |-> LinePrice(l)], LinesOfProduct(p))

TotalRevenue == SumOver([l \in AllLines |-> LinePrice(l)], AllLines)

\* the calendar day of an order, as a number that grows with time
DayOf(o) ==
    orders[o].order_date.year * 10000 + orders[o].order_date.month * 100
        + orders[o].order_date.day
DayNumber(date) == date[1] * 10000 + date[2] * 100 + date[3]
OrdersOn(day) == {o \in 1..Len(orders) : DayOf(o) = day}

IsCall(name) == op.name = name /\ ret.kind = "return"

----------------------------------------------------------------------------
(* Claims about DataAnalyzer.get_top_clients_by_orders, under Spec.        *)

\* C1: for a non-empty client list and a positive top_n the returned
\* sequence has min(top_n, number of clients) records and their
\* order_count values never increase along it.
C1_TopClientsSortedAndSized ==
    IsCall("get_top_clients_by_orders") /\ Len(clients) > 0 /\ op.args[1] > 0 =>
        /\ Len(ret.value) = Min(op.args[1], Len(clients))
        /\ \A i, j \in 1..Len(ret.value) :
               i < j => ret.value[i].order_count >= ret.value[j].order_count

\* the ranking reordered the clients and cut the list
C1_Witness ==
    /\ IsCall("get_top_clients_by_orders")
    /\ Len(clients) = 2 /\ op.args[1] = 1
    /\ Len(ret.value) = 1
    /\ ret.value[1].client = 2 /\ ret.value[1].order_count = 2

\* client a is ranked before client b: more orders, or as many and earlier
\* in the client list
RankedBefore(a, b) ==
    \/ OrderCount(a) > OrderCount(b)
    \/ OrderCount(a) = OrderCount(b) /\ a < b

\* C2: the result is the first top_n entries of the stable descending sort
\* of the client list by order count alone: each record carries the number
\* of the client's orders and the sum of their totals, a client with more
\* orders precedes one with fewer whatever they spent, and clients with as
\* many orders keep their input order.
C2_TopClientsStableByOrderCount ==
    IsCall("get_top_clients_by_orders") =>
        LET r == ret.value
            ranked == {r[i].client : i \in 1..Len(r)}
        IN  /\ Len(r) = Min(op.args[1], Len(clients))
            /\ \A i \in 1..Len(r) :
                   /\ r[i].client \in 1..Len(clients)
                   /\ r[i].order_count = OrderCount(r[i].client)
                   /\ r[i].total_spent = Spent(r[i].client)
            /\ \A i, j \in 1..Len(r) : i < j => RankedBefore(r[i].client, r[j].client)
            /\ \A c \in (1..Len(clients)) \ ranked :
                   \A i \in 1..Len(r) : RankedBefore(r[i].client, c)

\* two clients with one order each, the second spent more: input order kept
C2_Witness ==
    /\ IsCall("get_top_clients_by_orders")
    /\ Len(ret.value) = 2
    /\ ret.value[1].client = 1 /\ ret.value[2].client = 2
    /\ ret.value[1].order_count = 1 /\ ret.value[2].order_count = 1
    /\ ret.value[1].total_spent < ret.value[2].total_spent

----------------------------------------------------------------------------
(* Claims about DataAnalyzer.get_top_products_by_sales, under SpecProducts.*)

C4_TopProductsByQuantity ==
    IsCall("get_top_products_by_sales") =>
        LET r == ret.value
            ranked == {r[i].product : i \in 1..Len(r)}
        IN  /\ \A i, j \in 1..Len(r) :
                   i < j => r[i].quantity_sold >= r[j].quantity_sold
            /\ \A p \in SoldProducts \ ranked :
                   \A i \in 1..Len(r) : r[i].quantity_sold >= UnitsSold(p)

----------------------------------------------------------------------------
(* Claims about DataAnalyzer.get_orders_dynamics, under SpecDynamics.      *)

\* C5: the result has exactly one row per distinct calendar date of the
\* orders, the dates strictly increasing; a row's order_count is the number
\* of orders of that date and its revenue the sum of their totals; the
\* counts add up to the number of orders.
C5_OrdersDynamicsByDate ==
    IsCall("get_orders_dynamics") =>
        LET r == ret.value
        IN  /\ {DayNumber(r[i].date) : i \in 1..Len(r)}
                   = {DayOf(o) : o \in 1..Len(orders)}
            /\ \A i, j \in 1..Len(r) :
                   i < j => DayNumber(r[i].date) < DayNumber(r[j].date)
            /\ \A i \in 1..Len(r) :
                   /\ r[i].order_count = Cardinality(OrdersOn(DayNumber(r[i].date)))
                   /\ r[i].revenue =
                          SumOver([o \in 1..Len(orders) |-> OrderTotal(o)],
                                  OrdersOn(DayNumber(r[i].date)))
            /\ SumSeq([i \in 1..Len(r) |-> r[i].order_count]) = Len(orders)

\* the later date was ordered first, and the rows come out by date
C5_Witness ==
    /\ IsCall("get_orders_dynamics")
    /\ Len(orders) = 2 /\ DayOf(1) > DayOf(2)
    /\ Len(ret.value) = 2
    /\ DayNumber(ret.value[1].date) = DayOf(2)
    /\ ret.value[1].revenue > 0

----------------------------------------------------------------------------
(* Claims about DataAnalyzer.generate_sales_report, under Spec.            *)

\* C6: total_revenue is the sum of total_amount over the orders, and
\* total_orders, total_clients, total_products are the sizes of the three
\* collections.
C6_ReportTotals ==
    op.name = "generate_sales_report" =>
        /\ ret.kind = "return"
        /\ ret.value.total_revenue = TotalRevenue
        /\ ret.value.total_orders = Len(orders)
        /\ ret.value.total_clients = Len(clients)
        /\ ret.value.total_products = Len(products)

C6_Witness ==
    /\ IsCall("generate_sales_report")
    /\ Len(clients) = 1 /\ Len(products) = 2 /\ Len(orders) = 2
    /\ Len(orders[1].items) = 1 /\ Len(orders[2].items) = 1
    /\ ret.value.total_revenue = 6

\* C7: avg_order_value is 0 without orders and total_revenue / total_orders
\* otherwise; avg_orders_per_client is 0 without clients and
\* total_orders / total_clients otherwise; the report never divides by zero.
C7_ReportAverages ==
    op.name = "generate_sales_report" =>
        /\ ret.kind = "return"
        /\ LET a == ret.value.avg_order_value
           IN  IF Len(orders) = 0
               THEN a.num = 0 /\ a.den = 1
               ELSE a.den > 0 /\ a.num * Len(orders) = TotalRevenue * a.den
        /\ LET a == ret.value.avg_orders_per_client
           IN  IF Len(clients) = 0
               THEN a.num = 0 /\ a.den = 1
               ELSE a.den > 0 /\ a.num * Len(clients) = Len(orders) * a.den

\* a report over no clients and no orders: both averages are 0
C7_Witness ==
    /\ IsCall("generate_sales_report")
    /\ Len(clients) = 0 /\ Len(orders) = 0 /\ Len(products) = 1
    /\ ret.value.avg_order_value = Zero
    /\ ret.value.avg_orders_per_client = Zero

----------------------------------------------------------------------------
(* Claims about validation (models.py), checked under SpecModels.          *)

\* C8: constructing an OrderItem with quantity < 1 raises a validation error
\* and with quantity >= 1 (in particular 1) succeeds; assigning a quantity
\* < 1 to an existing OrderItem raises and leaves the item unchanged.
C8_OrderItemQuantityValidated ==
    [][ /\ op'.name = "OrderItem" =>
               (ret'.kind = "raise" <=> op'.args[2] < 1)
        /\ op'.name = "OrderItem.quantity=" /\ op'.args[1] < 1 =>
               ret'.kind = "raise" /\ item' = item ]_vars

\* C9: constructing a Product with a negative price raises a validation
\* error and with price >= 0 (in particular 0) succeeds; assigning a negative
\* price raises and leaves the price unchanged; hence no Product ever has a
\* negative price.
C9_ProductPriceValidated ==
    [][ /\ op'.name = "Product" =>
               (ret'.kind = "raise" <=> op'.args[1] < 0)
        /\ op'.name = "Product.price=" /\ op'.args[2] < 0 =>
               ret'.kind = "raise" /\ products' = products
        /\ \A p \in 1..Len(products') : products'[p].price >= 0 ]_vars

\* C10: an email that does not match the pattern raises a validation error
\* both when a Client is constructed with it and when it is assigned to
\* client.email, so no Client ever holds an invalid email.
C10_ClientEmailValidated ==
    [][ /\ op'.name = "Client" /\ ~validate_email(op'.args[1]) =>
               ret'.kind = "raise"
        /\ op'.name = "Client.email=" /\ ~validate_email(op'.args[2]) =>
               ret'.kind = "raise" /\ clients' = clients
        /\ \A c \in 1..Len(clients') : validate_email(clients'[c].email) ]_vars

----------------------------------------------------------------------------
(* Claims about Order.add_item and Order.remove_item, under SpecOrder.     *)

\* the positions of the lines of product p in a list of items
LinesWith(items, p) == {i \in 1..Len(items) : items[i].product = p}

\* C11: after any sequence of add_item and remove_item calls an order holds
\* at most one OrderItem per product.
C11_OneLinePerProduct ==
    \A o \in 1..Len(orders) : \A i, j \in 1..Len(orders[o].items) :
        i # j => orders[o].items[i].product # orders[o].items[j].product

\* product 1 was added a second time: the order still has its two lines,
\* that of product 1 holding both quantities
C11_Witness ==
    /\ op = Call("Order.add_item", <<1, 1, 1>>) /\ ret.kind = "return"
    /\ orders[1].items = <<OrderItem_init(1, 2), OrderItem_init(2, 1)>>

\* C12 as stated: add_item(product, q) on an order holding a line of the
\* product makes that line's quantity old + q, the number and order of the
\* lines unchanged; otherwise it appends the line (product, q), the other
\* lines unchanged (so calling it twice adds q twice).  Stated of the
\* orders whose lines all have a quantity >= 1, as the data model has them.
C12_AddItemAdds ==
    [][ /\ op'.name = "Order.add_item"
        /\ \A i \in 1..Len(orders[op'.args[1]].items) :
               orders[op'.args[1]].items[i].quantity >= 1
        =>
            LET o == op'.args[1]
                p == op'.args[2]
                q == op'.args[3]
                old == orders[o].items
                new == orders'[o].items
            IN  IF LinesWith(old, p) = {}
                THEN new = Append(old, [product |-> p, quantity |-> q])
                ELSE /\ Len(new) = Len(old)
                     /\ \A i \in 1..Len(old) :
                            /\ new[i].product = old[i].product
                            /\ new[i].quantity =
                                   IF i \in LinesWith(old, p)
                                   THEN old[i].quantity + q
                                   ELSE old[i].quantity ]_vars

\* C12 amended: as C12, except that when the order holds a line of the
\* product and old + q < 1 the call raises ValueError and changes nothing;
\* in every other case the call returns.
C12_AddItemAddsOrRaises ==
    [][ op'.name = "Order.add_item" =>
            LET o == op'.args[1]
                p == op'.args[2]
                q == op'.args[3]
                old == orders[o].items
                new == orders'[o].items
                rejected == \E i \in LinesWith(old, p) : old[i].quantity + q < 1
            IN  /\ ret'.kind = (IF rejected THEN "raise" ELSE "return")
                /\ \A k \in 1..Len(orders) : k # o => orders'[k] = orders[k]
                /\ IF rejected
                   THEN new = old
                   ELSE IF LinesWith(old, p) = {}
                   THEN new = Append(old, [product |-> p, quantity |-> q])
                   ELSE /\ Len(new) = Len(old)
                        /\ \A i \in 1..Len(old) :
                               /\ new[i].product = old[i].product
                               /\ new[i].quantity =
                                      IF i \in LinesWith(old, p)
                                      THEN old[i].quantity + q
                                      ELSE old[i].quantity ]_vars

\* add_item(product 2, 1) was called twice after product 1 was added: the
\* second line holds 1 + 1, the first line is as it was
C12_Witness ==
    /\ op = Call("Order.add_item", <<1, 2, 1>>) /\ ret.kind = "return"
    /\ orders[1].items = <<OrderItem_init(1, 1), OrderItem_init(2, 2)>>

\* C13: after any sequence of add_item calls with any integer quantity and
\* remove_item calls every OrderItem of the order has quantity >= 1; an
\* add_item call with a quantity < 1 raises and leaves the items unchanged.
C13_OrderQuantitiesPositive ==
    [][ /\ \A o \in 1..Len(orders') : \A i \in 1..Len(orders'[o].items) :
               orders'[o].items[i].quantity >= 1
        /\ op'.name = "Order.add_item" /\ op'.args[3] < 1 =>
               ret'.kind = "raise" /\ orders' = orders ]_vars

\* C14: remove_item(product) removes the whole line of the product whatever
\* its quantity, leaves the other lines, their relative order and their
\* quantities unchanged, and changes nothing when the order has no line of
\* the product.
C14_RemoveItemWholeLine ==
    [][ op'.name = "Order.remove_item" =>
            LET o == op'.args[1]
                p == op'.args[2]
                old == orders[o].items
                new == orders'[o].items
                kept == (1..Len(old)) \ LinesWith(old, p)
            IN  /\ ret'.kind = "return"
                /\ LinesWith(new, p) = {}
                /\ Len(new) = Cardinality(kept)
                /\ \A i \in kept :
                       new[Cardinality({j \in kept : j <= i})] = old[i]
                /\ LinesWith(old, p) = {} => new = old
                /\ \A k \in 1..Len(orders) : k # o => orders'[k] = orders[k]
                /\ UNCHANGED <<clients, products>> ]_vars

\* the line of product 1, of quantity 2, was removed whole and the line of
\* product 2 moved up as it was
C14_Witness ==
    /\ op = Call("Order.remove_item", <<1, 1>>)
    /\ item = OrderItem_init(1, 2)
    /\ orders[1].items = <<OrderItem_init(2, 1)>>

----------------------------------------------------------------------------
(* Claim about the links between clients and orders, under SpecLinks.      *)

\* C15: an order is on the order list of client c exactly when its client
\* is c, it is there once, and the client of an order never changes.
C15_OrdersLinkedToOwner ==
    [][ /\ \A c \in 1..Len(clients') : \A o \in 1..Len(orders') :
               o \in Range(clients'[c].orders) <=> orders'[o].client = c
        /\ \A c \in 1..Len(clients') : \A i, j \in 1..Len(clients'[c].orders) :
               i # j => clients'[c].orders[i] # clients'[c].orders[j]
        /\ \A o \in 1..Len(orders) : orders'[o].client = orders[o].client ]_vars

----------------------------------------------------------------------------
(* Claim about the totals, under SpecTotals.                               *)

\* C16: at every moment total_amount is the sum over the order's lines of
\* quantity times the current price of the product (0 for an order without
\* lines), and get_total_spent is the sum of total_amount over the
\* client's orders.
C16_TotalsFollowPrices ==
    /\ IsCall("Order.total_amount") =>
           /\ ret.value = OrderTotal(op.args[1])
           /\ orders[op.args[1]].items = <<>> => ret.value = 0
    /\ IsCall("Client.get_total_spent") => ret.value = Spent(op.args[1])

\* the price of product 1 was changed from 3 to 2: an order holding two
\* lines, one of them 2 units of product 1, totals 2 * 2 + 1 * 1
C16_Witness ==
    /\ IsCall("Order.total_amount") /\ op.args[1] = 1
    /\ products[1].price = 2
    /\ orders[1].items = <<OrderItem_init(1, 2), OrderItem_init(2, 1)>>
    /\ ret.value = 5

----------------------------------------------------------------------------
(* Claims about the aggregation functions together, under SpecAnalysis.    *)

AggregationCalls ==
    {"get_top_clients_by_orders", "get_top_products_by_sales",
     "get_orders_dynamics", "generate_sales_report"}

\* C17: none of the four aggregation functions changes its inputs: the
\* three collections, the order lists of the clients, the items,
\* quantities and status of the orders and the prices of the products are
\* after the call what they were before.
C17_AggregationLeavesInputs ==
    [][ op'.name \in AggregationCalls =>
            clients' = clients /\ products' = products /\ orders' = orders ]_vars

\* the ranking of two clients was asked for where the second has the order
\* (so the ranking is not the input order), the order's status was changed
C17_Witness ==
    /\ IsCall("get_top_clients_by_orders") /\ op.args[1] = 2
    /\ Len(clients) = 2 /\ clients[1].orders = <<>> /\ clients[2].orders = <<1>>
    /\ orders[1].status = "Done" /\ orders[1].items = <<OrderItem_init(1, 2)>>
    /\ ret.value[1].client = 2

\* C19: on empty client, product and order collections every aggregation
\* function returns: both rankings are empty, the time series has no rows,
\* every number of the report is zero.
C19_EmptyInputDegradesGracefully ==
    Len(clients) = 0 /\ Len(products) = 0 /\ Len(orders) = 0
    /\ op.name \in AggregationCalls =>
        /\ ret.kind = "return"
        /\ op.name \in {"get_top_clients_by_orders", "get_top_products_by_sales",
                         "get_orders_dynamics"} => Len(ret.value) = 0
        /\ op.name = "generate_sales_report" =>
               /\ ret.value.total_orders = 0
               /\ ret.value.total_revenue = 0
               /\ ret.value.total_clients = 0
               /\ ret.value.total_products = 0
               /\ ret.value.avg_order_value.num = 0
               /\ ret.value.avg_orders_per_client.num = 0
               /\ Len(ret.value.top_clients) = 0
               /\ Len(ret.value.top_products) = 0

\* the report was made over nothing at all
C19_Witness ==
    /\ IsCall("generate_sales_report")
    /\ Len(clients) = 0 /\ Len(products) = 0 /\ Len(orders) = 0
    /\ ret.value.total_revenue = 0

----------------------------------------------------------------------------
(* Claim about Database.save_client / save_product / save_order, SpecDb.   *)

\* the rows of order o in order_items, in item_id order
StoredItems(d, o) == SelectSeq(d.order_items, LAMBDA r : r.order_id = o)

\* the store d holds the object the call op was made for, as it is now
Stored(d, call) ==
    CASE call.name = "save_client" ->
             \E r \in d.clients :
                 r.client_id = call.args[1] /\ r.email = clients[call.args[1]].email
      [] call.name = "save_product" ->
             \E r \in d.products :
                 r.product_id = call.args[1] /\ r.price = products[call.args[1]].price
      [] call.name = "save_order" ->
             LET o == call.args[1]
                 rows == StoredItems(d, o)
             IN  /\ \E r \in d.orders :
                        /\ r.order_id = o
                        /\ r.status = orders[o].status
                        /\ r.total_amount = OrderTotal(o)
                 /\ Cardinality({r \in d.orders : r.order_id = o}) = 1
                 /\ Len(rows) = Len(orders[o].items)
                 /\ \A i \in 1..Len(rows) :
                        /\ rows[i].product_id = orders[o].items[i].product
                        /\ rows[i].quantity = orders[o].items[i].quantity

\* C20: the three saves never raise on a failure of the store but return
\* False; they return True only with the write in the store; a save that
\* returns False leaves the store as it was, so a failing save_order never
\* leaves the order row updated, the old items deleted or only some of the
\* new items inserted.
C20_SaveReportsAndIsAtomic ==
    [][ op'.name \in {"save_client", "save_product", "save_order"} =>
            /\ ret'.kind = "return"
            /\ ret'.value \in BOOLEAN
            /\ op'.args[2] # 0 => ret'.value = FALSE
            /\ ret'.value = FALSE => db' = db
            /\ ret'.value = TRUE => Stored(db', op') ]_vars

\* the order was saved with one line, then changed to two lines, and the
\* next save failed at the insert of the second line: the store still holds
\* the order as first saved
C20_Witness ==
    /\ op = Call("save_order", <<1, 4>>) /\ ret = Return(FALSE)
    /\ orders[1].items = <<OrderItem_init(1, 2), OrderItem_init(2, 1)>>
    /\ StoredItems(db, 1) =
           <<[order_id |-> 1, product_id |-> 1, quantity |-> 1, price |-> 3]>>
    /\ \E r \in db.orders : r.order_id = 1 /\ r.total_amount = 3

----------------------------------------------------------------------------
(* Claims about DataAnalyzer._recursive_date_sort, under SpecSort.         *)

\* how often date d occurs in the list
Occurrences(dates, d) == Cardinality({i \in 1..Len(dates) : dates[i] = d})

\* C22: the list returned by _recursive_date_sort is in ascending order and
\* holds every date of the input as often as the input does, repeated dates
\* included.
C22_SortedPermutation ==
    IsCall("_recursive_date_sort") =>
        LET dates == op.args[1]
            r == ret.value
        IN  /\ \A i, j \in 1..Len(r) : i < j => DayNumber(r[i]) <= DayNumber(r[j])
            /\ \A d \in DateStrings : Occurrences(r, d) = Occurrences(dates, d)

\* a date twice around an earlier one
C22_Witness ==
    /\ IsCall("_recursive_date_sort")
    /\ op.args[1] = <<<<2023, 1, 3>>, <<2022, 12, 31>>, <<2023, 1, 3>>>>
    /\ ret.value = <<<<2022, 12, 31>>, <<2023, 1, 3>>, <<2023, 1, 3>>>>

\* C23: every call returns, and every recursive call is made by a call on a
\* list of at least two dates and receives a strictly shorter list.
C23_RecursionOnShorterLists ==
    [][ op'.name = "_recursive_date_sort" =>
            /\ ret'.kind = "return"
            /\ op'.args[2] > 0 =>
                   /\ op.name = "_recursive_date_sort"
                   /\ op'.args[2] = op.args[2] + 1
                   /\ Len(op.args[1]) > 1
                   /\ Len(op'.args[1]) < Len(op.args[1]) ]_vars

\* the second level of the recursion: a list of three dates, its right
\* partition of two, the right partition of that
C23_Witness ==
    /\ op.name = "_recursive_date_sort"
    /\ op.args[2] = 2
    /\ Len(op.args[1]) = 1

----------------------------------------------------------------------------
(* Claim about save_order followed by load_orders, under SpecLoad.         *)

\* the (product id, quantity) pairs of the lines of order o
ItemPairs(o) ==
    {<<product_id(orders[o].items[i].product), orders[o].items[i].quantity>> :
         i \in 1..Len(orders[o].items)}

\* order o is in the store as it is now, with the row of its client and the
\* rows of the products of its lines
SavedWithClientAndProducts(o) ==
    /\ Stored(db, Call("save_order", <<o, 0>>))
    /\ \E r \in db.clients : r.client_id = client_id(orders[o].client)
    /\ \A i \in 1..Len(orders[o].items) :
           \E r \in db.products : r.product_id = product_id(orders[o].items[i].product)

\* load_orders returned exactly one order with the id of order o, and it has
\* the client id, date, status and (product id, quantity) pairs of o
LoadedAs(o) ==
    LET same == {i \in 1..Len(ret.value) : order_id(ret.value[i]) = order_id(o)}
    IN  /\ Cardinality(same) = 1
        /\ \A i \in same :
               LET l == ret.value[i]
               IN  /\ l # o
                   /\ client_id(orders[l].client) = client_id(orders[o].client)
                   /\ orders[l].order_date = orders[o].order_date
                   /\ orders[l].status = orders[o].status
                   /\ ItemPairs(l) = ItemPairs(o)
                   /\ Len(orders[l].items) = Cardinality(ItemPairs(o))

\* C30: for an order saved with its client and its products in the store,
\* load_orders returns exactly one order of that id, with the same client
\* id, date, status and set of (product id, quantity) pairs; and every
\* save_order that returns True, the first as well as a later one after
\* lines were added or removed, leaves exactly the order's current lines in
\* the store.
C30_SaveLoadRoundTrip ==
    [][ /\ (op'.name = "save_order" /\ ret'.value = TRUE) => Stored(db', op')
        /\ (op'.name = "load_orders" /\ SavedWithClientAndProducts(1)') =>
               LoadedAs(1)' ]_vars

\* the order was saved, a line was removed from it, it was saved again and
\* loaded: the loaded order has the one line left
C30_Witness ==
    /\ IsCall("load_orders")
    /\ SavedWithClientAndProducts(1)
    /\ item = OrderItem_init(1, 1)
    /\ Len(ret.value) = 1
    /\ orders[ret.value[1]].status = "Done"
    /\ ItemPairs(ret.value[1]) = {<<2, 2>>}

----------------------------------------------------------------------------
(* Claims about the export and about the orders kept, under SpecStore.     *)

\* C21: export_to_csv to a writable file returns True for each of
\* 'clients', 'products' and 'orders' and writes one row per entity of the
\* store.
C21_ExportSucceeds ==
    (op.name = "export_to_csv" /\ op.args[1] \in DataTypes /\ op.args[2]) =>
        /\ ret = Return(TRUE)
        /\ file.fieldnames = fieldnames_of(op.args[1])
        /\ file.rows = loaded_ids(db, op.args[1])

\* the ids of the orders that load_orders returns from store d
LoadableOrders(d) ==
    LET l == loaded_ids(d, "orders") IN {l[i] : i \in 1..Len(l)}

\* C28: saving or importing a client never takes an order away from what
\* load_orders returns.
C28_SavingClientsKeepsOrders ==
    [][ op'.name \in {"save_client", "import_from_csv", "import_from_json"} =>
            LoadableOrders(db) \subseteq LoadableOrders(db') ]_vars

----------------------------------------------------------------------------
(* Claim about import_from_csv / import_from_json, under SpecImport.       *)

\* every row of the imported file is in the table of store d
RowsPersisted(d, call) ==
    LET rows == call.args[3]
        addrs == call.args[4]
    IN  \A i \in 1..Len(rows) :
            IF call.args[1] = "clients"
            THEN \E r \in d.clients :
                     r.client_id = addrs[i] /\ r.email = rows[i].value
            ELSE \E r \in d.products :
                     r.product_id = addrs[i] /\ r.price = rows[i].value

\* C29: an import of clients or of products that returns True has persisted
\* every row of the file, and one that returns False has left the store as
\* it was.
C29_ImportAllOrNothing ==
    [][ (/\ op'.name \in {"import_from_csv", "import_from_json"}
         /\ op'.args[1] \in {"clients", "products"}) =>
            /\ ret'.value = TRUE => RowsPersisted(db', op')
            /\ ret'.value = FALSE => db' = db ]_vars

----------------------------------------------------------------------------
(* Claim about the start of the application, under SpecLoad.               *)

\* the orders of the application whose client has the id of client c
AppOrdersOf(c) ==
    {o \in Range(gui.orders) : client_id(orders[o].client) = client_id(c)}

\* C24: once the application has loaded clients, products and orders, the
\* client of every order of app.orders is one of the objects of
\* app.clients, so the order_count that get_top_clients_by_orders reports
\* for a client is the number of loaded orders with that client's id.
C24_LoadedOrdersShareClients ==
    op.name \in {"OnlineStoreApp", "_show_top_clients"} =>
        /\ \A o \in Range(gui.orders) : orders[o].client \in Range(gui.clients)
        /\ \A i \in 1..Len(app_client_orders) :
               app_client_orders[i].order_count
                   = Cardinality(AppOrdersOf(app_client_orders[i].client))

----------------------------------------------------------------------------
(* Claims about the order form of the application, under SpecGui.          *)

\* C25: whenever there is no current order, every order on the order list
\* of a client of the application is in app.orders: an order discarded with
\* 'clear current order' counts for no statistic.
C25_NoOrderOutsideAppOrders ==
    gui.current_order = 0 =>
        \A c \in Range(gui.clients) :
            Range(clients[c].orders) \subseteq Range(gui.orders)

\* C26: a product added with 'add product to order' goes to an order whose
\* client is the client selected in the form at that moment.
C26_ProductGoesToSelectedClient ==
    [][ (op'.name = "_add_product_to_order" /\ orders' # orders) =>
            orders'[gui'.current_order].client = gui.client_var ]_vars

----------------------------------------------------------------------------
(* Claim about the clients and products of the application, under          *)
(* SpecCatalogue.                                                          *)

\* C27: after every completed operation the client ids in memory are the
\* client ids in the store, and so are the product ids.
C27_MemoryMatchesStore ==
    /\ {client_id(c) : c \in Range(gui.clients)} = {r.client_id : r \in db.clients}
    /\ {product_id(p) : p \in Range(gui.products)} = {r.product_id : r \in db.products}

====
